---- MODULE Spec2Model ----
(***************************************************************************)
(* Model of app.py of resume-tailor: the block walker, the snapshot        *)
(* extractor, the reinjection engine (rewrite_doc_in_place), the retry     *)
(* loop of call_hf_llm and the "Tailor my resume" button handler.          *)
(*                                                                         *)
(* A text is a sequence of one-character strings.  A document is the       *)
(* sequence of its body-level blocks.  A paragraph is a record             *)
(* [kind, runs, style]; a run is [text, style]; a table is [kind, rows],   *)
(* rows being a sequence of rows, a row a sequence of cells, a cell a      *)
(* record [paragraphs].                                                    *)
(***************************************************************************)
EXTENDS Naturals, Sequences, FiniteSets, TLC

VARIABLES
    pc,            \* position of the program
    heap,          \* the document objects alive: reference -> document value
    src,           \* reference to the parsed upload (0: none yet)
    original,      \* history: the document's value right after parsing
    lines,         \* extract_text_snapshot's list: records [text, block, row]
    snapshot,      \* the joined snapshot text
    attempt,       \* call_hf_llm's loop variable
    requests,      \* history: number of requests.post calls made
    lastResp,      \* history: outcome of the last requests.post
    delays,        \* history: the arguments of time.sleep, in order
    revised_text,  \* the text handed to rewrite_doc_in_place
    target,        \* reference held by rewrite_doc_in_place's src_doc
    new_lines,     \* rewrite_doc_in_place's new_lines
    it,            \* number of lines the iterator `it` has yielded
    si,            \* number of structural slots the walk has passed
    popped,        \* history: per passed slot, the line next_line returned
    buf,           \* the serialised output (<<>>: nothing written)
    error          \* the failure shown to the user ("none": no failure)

vars == <<pc, heap, src, original, lines, snapshot, attempt, requests, lastResp,
          delays, revised_text, target, new_lines, it, si, popped, buf, error>>

(***************************************************************************)
(* Bounds of the model.                                                    *)
(***************************************************************************)
MaxBlocks == 2

(***************************************************************************)
(* Strings.                                                                *)
(***************************************************************************)
Whitespace == {" ", "\t", "\n", "\r"}

Min(a, b) == IF a < b THEN a ELSE b

RECURSIVE LStrip(_)
LStrip(t) ==
    IF t # <<>> /\ Head(t) \in Whitespace THEN LStrip(Tail(t)) ELSE t

RECURSIVE RStrip(_)
RStrip(t) ==
    IF t # <<>> /\ t[Len(t)] \in Whitespace
    THEN RStrip(SubSeq(t, 1, Len(t) - 1))
    ELSE t

Strip(t) == RStrip(LStrip(t))

RECURSIVE Join(_, _)
Join(ts, sep) ==
    IF ts = <<>> THEN <<>>
    ELSE IF Len(ts) = 1 THEN ts[1]
    ELSE ts[1] \o sep \o Join(Tail(ts), sep)

\* str.splitlines(): a line ends at a line break; no empty last line after a
\* final line break; the empty text has no lines.
\* ("\r\n" counts as one line break.)
RECURSIVE SplitFrom(_, _)
SplitFrom(t, cur) ==
    IF t = <<>> THEN (IF cur = <<>> THEN <<>> ELSE <<cur>>)
    ELSE IF Head(t) = "\r" /\ Len(t) > 1 /\ t[2] = "\n"
         THEN <<cur>> \o SplitFrom(Tail(Tail(t)), <<>>)
    ELSE IF Head(t) \in {"\n", "\r"} THEN <<cur>> \o SplitFrom(Tail(t), <<>>)
    ELSE SplitFrom(Tail(t), Append(cur, Head(t)))

SplitLines(t) == SplitFrom(t, <<>>)

Map(f(_), s) == [i \in 1..Len(s) |-> f(s[i])]

(***************************************************************************)
(* The document object model the code sees through python-docx.            *)
(***************************************************************************)
Run(t, s) == [text |-> t, style |-> s]

Para(rs, s) == [kind |-> "paragraph", runs |-> rs, style |-> s]

Cell(ps) == [paragraphs |-> ps]

Table(rs) == [kind |-> "table", rows |-> rs]

\* The body's closing section properties: a child that is neither a
\* paragraph nor a table.
SectPr == [kind |-> "sectPr"]

\* Paragraph.text (getter): the run texts concatenated.
RECURSIVE ConcatRuns(_)
ConcatRuns(rs) ==
    IF rs = <<>> THEN <<>> ELSE Head(rs).text \o ConcatRuns(Tail(rs))

ParagraphText(p) == ConcatRuns(p.runs)

\* _Cell.text (getter): the cell's paragraph texts joined by a line break.
CellText(c) == Join(Map(ParagraphText, c.paragraphs), <<"\n">>)

\* _iter_block_items: the body's children that are paragraphs or tables, in
\* document order, as indices into the body.
RECURSIVE IterFrom(_, _)
IterFrom(body, i) ==
    IF i > Len(body) THEN <<>>
    ELSE IF body[i].kind \in {"paragraph", "table"}
         THEN <<i>> \o IterFrom(body, i + 1)
         ELSE IterFrom(body, i + 1)

IterBlockItems(body) == IterFrom(body, 1)

(***************************************************************************)
(* extract_text_snapshot.  Each line carries the place it came from: the   *)
(* walker position of its block and its row (0 for a paragraph).           *)
(***************************************************************************)
RowText(row) == Join(Map(LAMBDA c : Strip(CellText(c)), row), <<" ", "|", " ">>)

RECURSIVE ExtractRows(_, _, _)
ExtractRows(rows, b, r) ==
    IF r > Len(rows) THEN <<>>
    ELSE LET row_txt == RowText(rows[r])
         IN (IF Strip(row_txt) # <<>>
             THEN <<[text |-> row_txt, block |-> b, row |-> r]>>
             ELSE <<>>) \o ExtractRows(rows, b, r + 1)

\* Variant: an empty paragraph is emitted as a blank line.
ExtractBlockKeepBlank(block, b) ==
    IF block.kind = "paragraph"
    THEN <<[text |-> Strip(ParagraphText(block)), block |-> b, row |-> 0]>>
    ELSE ExtractRows(block.rows, b, 1)

ExtractBlock(block, b) ==
    IF block.kind = "paragraph"
    THEN LET txt == Strip(ParagraphText(block))
         IN IF txt # <<>> THEN <<[text |-> txt, block |-> b, row |-> 0]>>
            ELSE <<>>
    ELSE ExtractRows(block.rows, b, 1)

RECURSIVE ExtractFrom(_, _, _)
ExtractFrom(body, items, b) ==
    IF b > Len(items) THEN <<>>
    ELSE ExtractBlock(body[items[b]], b) \o ExtractFrom(body, items, b + 1)

\* Variant: all the paragraphs first, then all the tables.
ExtractParagraphsFirst(body) ==
    LET all == ExtractFrom(body, IterBlockItems(body), 1)
    IN SelectSeq(all, LAMBDA l : l.row = 0) \o SelectSeq(all, LAMBDA l : l.row > 0)

ExtractLines(body) == ExtractFrom(body, IterBlockItems(body), 1)

LineTexts(ls) == [i \in 1..Len(ls) |-> ls[i].text]

JoinSnapshot(ls) == Join(LineTexts(ls), <<"\n">>)

(***************************************************************************)
(* rewrite_doc_in_place.                                                   *)
(***************************************************************************)
\* Variant: blank lines are filtered out of the revised text.
NewLinesSkipBlank(text) ==
    SelectSeq(Map(RStrip, SplitLines(text)), LAMBDA ln : ln # <<>>)

\* new_lines = [ln.rstrip() for ln in revised_text.splitlines()]
NewLines(text) == Map(RStrip, SplitLines(text))

\* Variant: the iterator's exhaustion is not caught.
NextLineRaises(nl, i) ==
    IF i < Len(nl)
    THEN [line |-> nl[i + 1], it |-> i + 1, raised |-> FALSE]
    ELSE [line |-> <<>>, it |-> i, raised |-> TRUE]

\* next_line(): the iterator's next line, or "" once it is exhausted.
NextLine(nl, i) ==
    IF i < Len(nl)
    THEN [line |-> nl[i + 1], it |-> i + 1, raised |-> FALSE]
    ELSE [line |-> <<>>, it |-> i, raised |-> FALSE]

\* The order in which the loops reach the structural slots: a paragraph
\* block is one slot (row = cell = 0), a table one slot per cell, row by row.
RECURSIVE CellSlots(_, _, _, _)
CellSlots(rows, i, r, c) ==
    IF r > Len(rows) THEN <<>>
    ELSE IF c > Len(rows[r]) THEN CellSlots(rows, i, r + 1, 1)
    ELSE <<[block |-> i, row |-> r, cell |-> c]>> \o CellSlots(rows, i, r, c + 1)

RECURSIVE SlotsFrom(_, _, _)
SlotsFrom(body, items, b) ==
    IF b > Len(items) THEN <<>>
    ELSE (IF body[items[b]].kind = "paragraph"
          THEN <<[block |-> items[b], row |-> 0, cell |-> 0]>>
          ELSE CellSlots(body[items[b]].rows, items[b], 1, 1))
         \o SlotsFrom(body, items, b + 1)

Slots(body) == SlotsFrom(body, IterBlockItems(body), 1)

\* run.text = line
SetRunText(r, line) == [r EXCEPT !.text = line]

\* Variant: the runs after the first are removed instead of emptied.
OverwriteRunsDropRest(p, line) ==
    [p EXCEPT !.runs = <<SetRunText(p.runs[1], line)>>]

\* Variant: the runs after the first keep their text.
OverwriteFirstRunOnly(p, line) ==
    [p EXCEPT !.runs[1] = SetRunText(p.runs[1], line)]

\* runs[0].text = line; for r in runs[1:]: r.text = ""
OverwriteRuns(p, line) ==
    [p EXCEPT !.runs = [i \in 1..Len(p.runs) |->
        IF i = 1 THEN SetRunText(p.runs[i], line)
        ELSE SetRunText(p.runs[i], <<>>)]]

\* paragraph.text = line (python-docx: the paragraph's content is cleared and
\* one run without character formatting is added to hold the text).
SetParagraphText(p, line) ==
    [p EXCEPT !.runs = <<Run(line, "none")>>]

ApplyLine(p, line) ==
    IF p.runs # <<>> THEN OverwriteRuns(p, line) ELSE SetParagraphText(p, line)

\* The body of the cell loop: the first paragraph, when the cell has one.
ApplyLineToCell(c, line) ==
    IF c.paragraphs # <<>>
    THEN [c EXCEPT !.paragraphs[1] = ApplyLine(c.paragraphs[1], line)]
    ELSE c

\* Variant: no copy is taken, the same object is handed on.
ShallowCopy(h, ref) == [heap |-> h, ref |-> ref]

\* copy.deepcopy: a new object with the same value.
DeepCopy(h, ref) == [heap |-> Append(h, h[ref]), ref |-> Len(h) + 1]

(***************************************************************************)
(* The inputs: documents of at most MaxBlocks blocks drawn from BlockPool  *)
(* (each closed by the body's section properties), the documents of the    *)
(* spec's scenarios, and the texts the rewriting service may answer.       *)
(***************************************************************************)
\* A paragraph without runs (an empty paragraph used for spacing).
ParaNoRuns == Para(<<>>, "Normal")

ParaOne == Para(<<Run(<<"a">>, "bold")>>, "Heading")

ParaTwo == Para(<<Run(<<" ", "a">>, "bold"), Run(<<"b", " ">>, "italic")>>, "Bullet")

\* A paragraph whose only text is whitespace.
ParaBlank == Para(<<Run(<<" ">>, "plain")>>, "Normal")

CellOf(c) == Cell(<<Para(<<Run(<<c>>, "plain")>>, "Normal")>>)

\* The table of the flattening example: rows ["A","B"] and ["C","D"].
TableABCD == Table(<<
    <<CellOf("A"), CellOf("B")>>,
    <<CellOf("C"), CellOf("D")>> >>)

\* A cell with two paragraphs beside a cell with none, a row of two empty
\* cells, and a row of one empty cell.
TableOdd == Table(<<
    <<Cell(<<ParaTwo, ParaOne>>), Cell(<<>>)>>,
    <<Cell(<<ParaNoRuns>>), Cell(<<ParaBlank>>)>>,
    <<Cell(<<ParaBlank>>)>> >>)

BlockPool == {ParaNoRuns, ParaOne, ParaTwo, ParaBlank, TableABCD, TableOdd}

RECURSIVE BlockSeqs(_)
BlockSeqs(n) ==
    IF n = 0 THEN {<<>>}
    ELSE LET shorter == BlockSeqs(n - 1)
         IN shorter \cup {Append(q, b) : q \in {x \in shorter : Len(x) = n - 1},
                                         b \in BlockPool}

TxtSummary == <<"S", "u", "m", "m", "a", "r", "y">>
TxtBuiltX == <<"B", "u", "i", "l", "t", " ", "X">>
TxtSkills == <<"S", "k", "i", "l", "l", "s", ":", " ", "P", "y", "t", "h", "o", "n">>
TxtOverview == <<"O", "v", "e", "r", "v", "i", "e", "w">>
TxtShipped == <<"S", "h", "i", "p", "p", "e", "d", " ", "X", " ", "f", "a", "s", "t">>
TxtSkillsGo == <<"S", "k", "i", "l", "l", "s", ":", " ", "P", "y", "t", "h", "o", "n", ",", " ", "G", "o">>

\* The end-to-end scenario: paragraphs "Summary", "Built X", "" and a table
\* with the single cell "Skills: Python".
ScenarioDoc == <<
    Para(<<Run(TxtSummary, "bold")>>, "Heading"),
    Para(<<Run(TxtBuiltX, "plain")>>, "Bullet"),
    ParaNoRuns,
    Table(<< <<Cell(<<Para(<<Run(TxtSkills, "plain")>>, "Normal")>>)>> >>),
    SectPr >>

ScenarioRevised == TxtOverview \o <<"\n">> \o TxtShipped \o <<"\n">> \o TxtSkillsGo

\* The underflow example: a document with five paragraph slots.
FiveParagraphs == <<ParaOne, ParaTwo, ParaNoRuns, ParaBlank, ParaOne, SectPr>>

Docs == {Append(q, SectPr) : q \in BlockSeqs(MaxBlocks)}
            \cup {ScenarioDoc, FiveParagraphs}

Texts == {
    <<>>,
    <<"x">>,
    <<"x", " ", "\n", "y">>,
    <<" ", "x", "\n", "\n", "y", "\t", "\n", "z">>,
    <<"\n", " ", "x", " ", "\n">>,
    <<"x", "\r", "\n", "y", "\n", "z", " ", "\n", "\n", "v", "\n", "u", "\n">>,
    ScenarioRevised }

(***************************************************************************)
(* call_hf_llm's retry loop.                                               *)
(***************************************************************************)
MaxAttempts == 5

\* 503 = model loading; 429 = rate limit
Transient == {"503", "429"}

\* Statuses that are neither 200 nor transient.
OtherStatus == {"401", "500"}

\* Variant: the same delay before every retry.
DelayFixed(a) == 3

\* time.sleep(3 + attempt * 2)
Delay(a) == 3 + a * 2

(***************************************************************************)
(* The "Tailor my resume" handler, step by step.                           *)
(***************************************************************************)
Init ==
    /\ pc = "start"
    /\ heap = <<>>
    /\ src = 0
    /\ original = <<>>
    /\ lines = <<>>
    /\ snapshot = <<>>
    /\ attempt = 0
    /\ requests = 0
    /\ lastResp = "none"
    /\ delays = <<>>
    /\ revised_text = <<>>
    /\ target = 0
    /\ new_lines = <<>>
    /\ it = 0
    /\ si = 0
    /\ popped = <<>>
    /\ buf = <<>>
    /\ error = "none"

\* if not (resume_file and jd and HF_TOKEN): st.error(...); st.stop()
Validate ==
    /\ pc = "start"
    /\ \E ok \in BOOLEAN :
         IF ok THEN pc' = "parse" /\ error' = error
         ELSE pc' = "stopped" /\ error' = "missing_input"
    /\ UNCHANGED <<heap, src, original, lines, snapshot, attempt, requests,
                   lastResp, delays, revised_text, target, new_lines, it, si,
                   popped, buf>>

\* src = DocxDocument(resume_file)
Parse ==
    /\ pc = "parse"
    /\ \E d \in Docs :
         /\ heap' = <<d>>
         /\ original' = d
    /\ src' = 1
    /\ pc' = "extract"
    /\ UNCHANGED <<lines, snapshot, attempt, requests, lastResp, delays,
                   revised_text, target, new_lines, it, si, popped, buf, error>>

\* except Exception: st.error("Could not read .docx ..."); st.stop()
ParseError ==
    /\ pc = "parse"
    /\ pc' = "stopped"
    /\ error' = "not_a_docx"
    /\ UNCHANGED <<heap, src, original, lines, snapshot, attempt, requests,
                   lastResp, delays, revised_text, target, new_lines, it, si,
                   popped, buf>>

\* snapshot = extract_text_snapshot(src)
Extract ==
    /\ pc = "extract"
    /\ lines' = ExtractLines(heap[src])
    /\ snapshot' = JoinSnapshot(lines')
    /\ pc' = "call"
    /\ UNCHANGED <<heap, src, original, attempt, requests, lastResp, delays,
                   revised_text, target, new_lines, it, si, popped, buf, error>>

\* One pass of the loop answered 200: the generated text, stripped.
Post200 ==
    /\ pc = "call"
    /\ attempt < MaxAttempts
    /\ \E t \in Texts : revised_text' = Strip(t)
    /\ requests' = requests + 1
    /\ lastResp' = "200"
    /\ pc' = "copy"
    /\ UNCHANGED <<heap, src, original, lines, snapshot, attempt, delays,
                   target, new_lines, it, si, popped, buf, error>>

\* One pass answered 503 or 429: sleep, then continue.
PostTransient ==
    /\ pc = "call"
    /\ attempt < MaxAttempts
    /\ \E s \in Transient : lastResp' = s
    /\ requests' = requests + 1
    /\ delays' = Append(delays, Delay(attempt))
    /\ attempt' = attempt + 1
    /\ UNCHANGED <<pc, heap, src, original, lines, snapshot, revised_text,
                   target, new_lines, it, si, popped, buf, error>>

\* One pass answered another status: RuntimeError("HF API error ..."), which
\* the handler reports before st.stop().
PostError ==
    /\ pc = "call"
    /\ attempt < MaxAttempts
    /\ \E s \in OtherStatus : lastResp' = s
    /\ requests' = requests + 1
    /\ pc' = "stopped"
    /\ error' = "hf_api_error"
    /\ UNCHANGED <<heap, src, original, lines, snapshot, attempt, delays,
                   revised_text, target, new_lines, it, si, popped, buf>>

\* requests.post(..., timeout=120) raised a timeout: nothing in call_hf_llm
\* catches it, the handler's except Exception reports it before st.stop().
PostTimeout ==
    /\ pc = "call"
    /\ attempt < MaxAttempts
    /\ lastResp' = "timeout"
    /\ requests' = requests + 1
    /\ pc' = "stopped"
    /\ error' = "timeout"
    /\ UNCHANGED <<heap, src, original, lines, snapshot, attempt, delays,
                   revised_text, target, new_lines, it, si, popped, buf>>

\* The loop ran out: RuntimeError("HF API retry limit reached ...").
RetryLimit ==
    /\ pc = "call"
    /\ attempt >= MaxAttempts
    /\ pc' = "stopped"
    /\ error' = "retry_limit"
    /\ UNCHANGED <<heap, src, original, lines, snapshot, attempt, requests,
                   lastResp, delays, revised_text, target, new_lines, it, si,
                   popped, buf>>

\* rewrite_doc_in_place(deepcopy(src), revised_text): the argument.
Copy ==
    /\ pc = "copy"
    /\ LET c == DeepCopy(heap, src)
       IN heap' = c.heap /\ target' = c.ref
    /\ pc' = "enter"
    /\ UNCHANGED <<src, original, lines, snapshot, attempt, requests, lastResp,
                   delays, revised_text, new_lines, it, si, popped, buf, error>>

\* new_lines = [...]; it = iter(new_lines)
EnterRewrite ==
    /\ pc = "enter"
    /\ new_lines' = NewLines(revised_text)
    /\ it' = 0
    /\ si' = 0
    /\ popped' = <<>>
    /\ pc' = "rewrite"
    /\ UNCHANGED <<heap, src, original, lines, snapshot, attempt, requests,
                   lastResp, delays, revised_text, target, buf, error>>

\* The loop body for a paragraph block.
RewriteParagraph ==
    /\ pc = "rewrite"
    /\ si < Len(Slots(heap[target]))
    /\ LET s == Slots(heap[target])[si + 1]
           n == NextLine(new_lines, it)
       IN /\ s.row = 0
          /\ IF n.raised
             THEN /\ pc' = "raised"
                  /\ UNCHANGED <<heap, it, si, popped>>
             ELSE /\ heap' = [heap EXCEPT ![target][s.block] = ApplyLine(@, n.line)]
                  /\ it' = n.it
                  /\ si' = si + 1
                  /\ popped' = Append(popped, n.line)
                  /\ pc' = pc
    /\ UNCHANGED <<src, original, lines, snapshot, attempt, requests, lastResp,
                   delays, revised_text, target, new_lines, buf, error>>

\* The loop body for one cell of a table block.
RewriteCell ==
    /\ pc = "rewrite"
    /\ si < Len(Slots(heap[target]))
    /\ LET s == Slots(heap[target])[si + 1]
           n == NextLine(new_lines, it)
       IN /\ s.row > 0
          /\ IF n.raised
             THEN /\ pc' = "raised"
                  /\ UNCHANGED <<heap, it, si, popped>>
             ELSE /\ heap' = [heap EXCEPT ![target][s.block].rows[s.row][s.cell] =
                                 ApplyLineToCell(@, n.line)]
                  /\ it' = n.it
                  /\ si' = si + 1
                  /\ popped' = Append(popped, n.line)
                  /\ pc' = pc
    /\ UNCHANGED <<src, original, lines, snapshot, attempt, requests, lastResp,
                   delays, revised_text, target, new_lines, buf, error>>

\* return src_doc
RewriteDone ==
    /\ pc = "rewrite"
    /\ si = Len(Slots(heap[target]))
    /\ pc' = "returned"
    /\ UNCHANGED <<heap, src, original, lines, snapshot, attempt, requests,
                   lastResp, delays, revised_text, target, new_lines, it, si,
                   popped, buf, error>>

\* revised_doc.save(buf) and the download button.
Save ==
    /\ pc = "returned"
    /\ buf' = heap[target]
    /\ pc' = "done"
    /\ UNCHANGED <<heap, src, original, lines, snapshot, attempt, requests,
                   lastResp, delays, revised_text, target, new_lines, it, si,
                   popped, error>>

Next ==
    \/ Validate
    \/ Parse
    \/ ParseError
    \/ Extract
    \/ Post200
    \/ PostTransient
    \/ PostError
    \/ PostTimeout
    \/ RetryLimit
    \/ Copy
    \/ EnterRewrite
    \/ RewriteParagraph
    \/ RewriteCell
    \/ RewriteDone
    \/ Save

Spec == Init /\ [][Next]_vars


(***************************************************************************)
(* rewrite_doc_in_place called on any document with any revised text.      *)
(***************************************************************************)
InitRewrite ==
    /\ pc = "enter"
    /\ \E d \in Docs :
         /\ heap = <<d>>
         /\ original = d
    /\ revised_text \in Texts
    /\ src = 1
    /\ target = 1
    /\ lines = <<>>
    /\ snapshot = <<>>
    /\ attempt = 0
    /\ requests = 0
    /\ lastResp = "none"
    /\ delays = <<>>
    /\ new_lines = <<>>
    /\ it = 0
    /\ si = 0
    /\ popped = <<>>
    /\ buf = <<>>
    /\ error = "none"

NextRewrite ==
    \/ EnterRewrite
    \/ RewriteParagraph
    \/ RewriteCell
    \/ RewriteDone

SpecRewrite == InitRewrite /\ [][NextRewrite]_vars

(***************************************************************************)
(* call_hf_llm called with the snapshot of any document.                   *)
(***************************************************************************)
InitCall ==
    /\ pc = "call"
    /\ snapshot \in {JoinSnapshot(ExtractLines(d)) : d \in Docs}
    /\ heap = <<>>
    /\ src = 0
    /\ original = <<>>
    /\ lines = <<>>
    /\ attempt = 0
    /\ requests = 0
    /\ lastResp = "none"
    /\ delays = <<>>
    /\ revised_text = <<>>
    /\ target = 0
    /\ new_lines = <<>>
    /\ it = 0
    /\ si = 0
    /\ popped = <<>>
    /\ buf = <<>>
    /\ error = "none"

NextCall ==
    \/ Post200
    \/ PostTransient
    \/ PostError
    \/ PostTimeout
    \/ RetryLimit

SpecCall == InitCall /\ [][NextCall]_vars

\* Every requests.post comes back (an answer, or an exception after
\* timeout=120) and the loop goes on: a step that can be taken is taken.
FairCall == SpecCall /\ WF_vars(NextCall)

(***************************************************************************)
(* Vocabulary of the properties.                                           *)
(***************************************************************************)
\* The document rewrite_doc_in_place works on.
Cur == heap[target]

Walking == pc \in {"rewrite", "returned", "done"}

Returned == pc \in {"returned", "done"}

Extracted == pc \notin {"start", "parse", "extract"} /\ src # 0

\* The revised text's lines, trailing whitespace stripped.
RevisedLines == [k \in 1..Len(SplitLines(revised_text)) |->
                    RStrip(SplitLines(revised_text)[k])]

\* The line allocated to slot k: the k-th line, "" past the last one.
Allocated(k) == IF k <= Len(RevisedLines) THEN RevisedLines[k] ELSE <<>>

SlotHasParagraph(body, s) ==
    s.row = 0 \/ body[s.block].rows[s.row][s.cell].paragraphs # <<>>

SlotParagraph(body, s) ==
    IF s.row = 0 THEN body[s.block]
    ELSE body[s.block].rows[s.row][s.cell].paragraphs[1]

\* The text a slot shows: its paragraph's, "" for a cell without paragraphs.
SlotText(body, s) ==
    IF SlotHasParagraph(body, s) THEN ParagraphText(SlotParagraph(body, s))
    ELSE <<>>

Tables(body) == {i \in 1..Len(body) : body[i].kind = "table"}

\* Every paragraph of a document: the body-level ones (row = 0) and every
\* paragraph of every cell.
ParaPaths(body) ==
    {[block |-> i, row |-> 0, cell |-> 0, para |-> 1] :
        i \in {j \in 1..Len(body) : body[j].kind = "paragraph"}}
    \cup UNION {UNION {UNION {
            {[block |-> i, row |-> r, cell |-> c, para |-> q] :
                q \in 1..Len(body[i].rows[r][c].paragraphs)} :
            c \in 1..Len(body[i].rows[r])} :
            r \in 1..Len(body[i].rows)} :
            i \in Tables(body)}

ParaAt(body, h) ==
    IF h.row = 0 THEN body[h.block]
    ELSE body[h.block].rows[h.row][h.cell].paragraphs[h.para]

\* The slots of the paragraph at h (none for a cell's later paragraphs).
SlotsOf(body, h) ==
    {k \in 1..Len(Slots(body)) :
        /\ h.para = 1
        /\ Slots(body)[k] = [block |-> h.block, row |-> h.row, cell |-> h.cell]}

\* Same blocks, rows, cells and cell paragraphs, counted.
SameGrid(a, b) ==
    /\ Len(a) = Len(b)
    /\ Len(IterBlockItems(a)) = Len(IterBlockItems(b))
    /\ \A i \in 1..Len(a) :
         /\ a[i].kind = b[i].kind
         /\ a[i].kind = "table" =>
              /\ Len(a[i].rows) = Len(b[i].rows)
              /\ \A r \in 1..Len(a[i].rows) :
                   /\ Len(a[i].rows[r]) = Len(b[i].rows[r])
                   /\ \A c \in 1..Len(a[i].rows[r]) :
                        Len(a[i].rows[r][c].paragraphs)
                            = Len(b[i].rows[r][c].paragraphs)

RunStyles(p) == [i \in 1..Len(p.runs) |-> p.runs[i].style]

(***************************************************************************)
(* C1.  As stated: reinjection leaves the number of blocks, of rows and    *)
(* cells of every table and of runs of every paragraph as they were, for   *)
(* paragraphs without runs too.                                            *)
(***************************************************************************)
C1_AsStated ==
    Walking =>
        /\ SameGrid(original, Cur)
        /\ \A h \in ParaPaths(original) :
             Len(ParaAt(Cur, h).runs) = Len(ParaAt(original, h).runs)

(***************************************************************************)
(* C1, amended.  Reinjection leaves the number of blocks, rows, cells and  *)
(* cell paragraphs as they were; a paragraph that had runs keeps them, in  *)
(* number and order; a paragraph that had no run has exactly one once it   *)
(* has been passed as a slot, and none otherwise.                          *)
(***************************************************************************)
C1_StructureKept ==
    Walking =>
        /\ SameGrid(original, Cur)
        /\ \A h \in ParaPaths(original) :
             LET before == ParaAt(original, h)
                 after == ParaAt(Cur, h)
             IN IF before.runs # <<>>
                THEN /\ Len(after.runs) = Len(before.runs)
                     /\ RunStyles(after) = RunStyles(before)
                ELSE IF \E k \in SlotsOf(original, h) : k <= si
                     THEN Len(after.runs) = 1
                     ELSE after.runs = <<>>

C1_Witness ==
    /\ pc = "returned"
    /\ SameGrid(original, Cur)
    /\ \E h \in ParaPaths(original) :
         /\ ParaAt(original, h).runs = <<>>
         /\ Len(ParaAt(Cur, h).runs) = 1
         /\ ParagraphText(ParaAt(Cur, h)) # <<>>
    /\ \E h \in ParaPaths(original) :
         /\ Len(ParaAt(original, h).runs) = 2
         /\ ParaAt(Cur, h) # ParaAt(original, h)

C3_MismatchIsNoError ==
    /\ pc # "raised"
    /\ pc \in {"enter", "rewrite"} => ENABLED NextRewrite
    /\ Walking => it <= Len(new_lines) /\ it <= si
    /\ Returned =>
         /\ si = Len(Slots(Cur))
         /\ it = Min(Len(RevisedLines), Len(Slots(Cur)))
         /\ \A k \in 1..Len(Slots(Cur)) :
              k > Len(RevisedLines) =>
                  /\ popped[k] = <<>>
                  /\ SlotText(Cur, Slots(Cur)[k]) = <<>>

C3_Witness ==
    /\ pc = "returned"
    /\ original = FiveParagraphs
    /\ Len(RevisedLines) = 2
    /\ \A k \in 3..5 : SlotText(Cur, Slots(Cur)[k]) = <<>>
    /\ SlotText(Cur, Slots(Cur)[2]) # <<>>

\* More lines than slots: the walk has returned with lines left over.
C3_WitnessOverflow ==
    /\ pc = "returned"
    /\ Len(Slots(Cur)) >= 1
    /\ Len(RevisedLines) > Len(Slots(Cur))
    /\ it = Len(Slots(Cur))

WalkerBlock(b) == original[IterBlockItems(original)[b]]

WalkerPositions == 1..Len(IterBlockItems(original))

\* The lines that came from row r (0: the paragraph itself) of block b.
LinesFrom(b, r) == {i \in 1..Len(lines) : lines[i].block = b /\ lines[i].row = r}

LinesOfBlock(b) ==
    LineTexts(SelectSeq(lines, LAMBDA l : l.block = b))

Blank(t) == \A i \in 1..Len(t) : t[i] \in Whitespace

EmptyRow(row) == \A c \in 1..Len(row) : Blank(CellText(row[c]))

TrimmedCells(row) == [c \in 1..Len(row) |-> Strip(CellText(row[c]))]

Before(l, m) == l.block < m.block \/ (l.block = m.block /\ l.row < m.row)

(***************************************************************************)
(* C4.  As stated: a paragraph whose text is empty or whitespace yields    *)
(* no line, a table row whose cells are all empty or whitespace yields no  *)
(* line however many cells it has, and every line is non-empty and         *)
(* without leading or trailing whitespace.                                 *)
(***************************************************************************)
C4_AsStated ==
    Extracted =>
        /\ \A i \in 1..Len(lines) :
             lines[i].text # <<>> /\ Strip(lines[i].text) = lines[i].text
        /\ \A b \in WalkerPositions :
             IF WalkerBlock(b).kind = "paragraph"
             THEN Blank(ParagraphText(WalkerBlock(b))) => LinesFrom(b, 0) = {}
             ELSE \A r \in 1..Len(WalkerBlock(b).rows) :
                    EmptyRow(WalkerBlock(b).rows[r]) => LinesFrom(b, r) = {}

(***************************************************************************)
(* C5.  The lines come in the order of their blocks in the walk, rows in   *)
(* row order; every non-empty paragraph yields exactly one line, its       *)
(* trimmed text; every non-empty table row yields exactly one line, its    *)
(* cells' trimmed texts joined with " | " in cell order; the table with    *)
(* rows ["A","B"] and ["C","D"] yields "A | B" then "C | D".               *)
(***************************************************************************)
C5_OrderAndFlattening ==
    Extracted =>
        /\ \A i, j \in 1..Len(lines) : i < j => Before(lines[i], lines[j])
        /\ \A i \in 1..Len(lines) :
             /\ lines[i].block \in WalkerPositions
             /\ IF WalkerBlock(lines[i].block).kind = "paragraph"
                THEN lines[i].row = 0
                ELSE lines[i].row \in 1..Len(WalkerBlock(lines[i].block).rows)
        /\ \A b \in WalkerPositions :
             IF WalkerBlock(b).kind = "paragraph"
             THEN ~Blank(ParagraphText(WalkerBlock(b))) =>
                    /\ Cardinality(LinesFrom(b, 0)) = 1
                    /\ \A i \in LinesFrom(b, 0) :
                         lines[i].text = Strip(ParagraphText(WalkerBlock(b)))
             ELSE /\ \A r \in 1..Len(WalkerBlock(b).rows) :
                       ~EmptyRow(WalkerBlock(b).rows[r]) =>
                          /\ Cardinality(LinesFrom(b, r)) = 1
                          /\ \A i \in LinesFrom(b, r) :
                               lines[i].text =
                                   Join(TrimmedCells(WalkerBlock(b).rows[r]),
                                        <<" ", "|", " ">>)
                  /\ WalkerBlock(b) = TableABCD =>
                       LinesOfBlock(b) = << <<"A", " ", "|", " ", "B">>,
                                            <<"C", " ", "|", " ", "D">> >>

C5_Witness ==
    /\ Extracted
    /\ Cardinality(WalkerPositions) = 2
    /\ WalkerBlock(1) = TableABCD
    /\ WalkerBlock(2) = ParaTwo
    /\ LineTexts(lines) = << <<"A", " ", "|", " ", "B">>,
                             <<"C", " ", "|", " ", "D">>,
                             <<"a", "b">> >>

(***************************************************************************)
(* C6.  The end-to-end scenario: the document with paragraphs "Summary",   *)
(* "Built X", "" and a one-cell table "Skills: Python" is extracted as     *)
(* exactly those three texts, and reinjecting the three revised lines      *)
(* fills the three paragraphs in order, the third line landing in the      *)
(* paragraph that was empty; the table cell gets no revised line.          *)
(***************************************************************************)
C6_Scenario ==
    /\ (Extracted /\ original = ScenarioDoc) =>
          LineTexts(lines) = <<TxtSummary, TxtBuiltX, TxtSkills>>
    /\ (Returned /\ original = ScenarioDoc /\ revised_text = ScenarioRevised) =>
          /\ ParagraphText(Cur[1]) = TxtOverview
          /\ ParagraphText(Cur[2]) = TxtShipped
          /\ ParagraphText(Cur[3]) = TxtSkillsGo
          /\ it = 3
          /\ popped[4] = <<>>
          /\ CellText(Cur[4].rows[1][1]) = <<>>

C6_Witness ==
    /\ pc = "done"
    /\ original = ScenarioDoc
    /\ revised_text = ScenarioRevised
    /\ LineTexts(lines) = <<TxtSummary, TxtBuiltX, TxtSkills>>
    /\ ParagraphText(buf[3]) = TxtSkillsGo

(***************************************************************************)
(* C8.  The parsed upload is never changed: from parsing on, through       *)
(* extraction, the service call, reinjection and saving, and after a       *)
(* failure, it has the value it had right after parsing.                   *)
(***************************************************************************)
C8_OriginalUntouched ==
    /\ src # 0 => heap[src] = original
    /\ pc \in {"enter", "rewrite", "returned", "done"} => target # src

C8_Witness ==
    /\ pc = "done"
    /\ target # src
    /\ buf # original
    /\ heap[src] = original

(***************************************************************************)
(* C9.  The retry policy: a request follows another only after a 429 or    *)
(* 503 and while fewer than 5 have been made, and then it does follow;     *)
(* the delays grow strictly; a 200 ends the call with a result, any other  *)
(* status ends it with a failure at once, five transient answers end it    *)
(* with the retry-limit failure; the call ends after at most 5 requests.   *)
(***************************************************************************)
C9_State ==
    /\ requests <= 5
    /\ Len(delays) = attempt
    /\ \A i \in 1..Len(delays) : \A j \in 1..Len(delays) :
         i < j => delays[i] < delays[j]
    /\ pc = "call" => (requests = 0 \/ lastResp \in {"429", "503"})
    /\ (lastResp \in {"429", "503"} /\ requests < 5) =>
          (pc = "call" /\ attempt < 5 /\ attempt = requests)
    /\ (lastResp \in {"429", "503"} /\ requests = 5) =>
          \/ pc = "call" /\ attempt = 5
          \/ pc = "stopped" /\ error = "retry_limit"
    /\ lastResp = "200" => (pc = "copy" /\ error = "none")
    /\ lastResp \in {"401", "500"} => (pc = "stopped" /\ error = "hf_api_error")
    /\ error = "retry_limit" => (requests = 5 /\ lastResp \in {"429", "503"})

C9_Step ==
    requests' # requests =>
        /\ requests' = requests + 1
        /\ requests < 5
        /\ requests = 0 \/ lastResp \in {"429", "503"}

\* call_hf_llm has returned its text or raised.
CallOver == pc \in {"copy", "stopped"}

C9_RetryPolicy == []C9_State /\ [][C9_Step]_vars /\ <>CallOver

C9_Witness ==
    /\ pc = "stopped"
    /\ error = "retry_limit"
    /\ requests = 5
    /\ delays = <<3, 5, 7, 9, 11>>

(***************************************************************************)
(* C10.  As stated: a request that times out while fewer than 5 attempts   *)
(* have been made is retried, the call does not end with an error there.   *)
(***************************************************************************)
C10_AsStated ==
    (lastResp = "timeout" /\ requests < 5) => (pc = "call" /\ error = "none")

====
